---- MODULE Spec2Model ----
(***************************************************************************)
(* Neural style transfer (src/source.py): the pipeline builder             *)
(* get_style_model_and_losses and the optimisation loop                    *)
(* run_style_transfer, as a state machine.                                 *)
(*                                                                         *)
(* A hierarchy (cnn) is a sequence of layer kinds.  The pipeline (model)   *)
(* is the nn.Sequential under construction: a sequence of named entries,   *)
(* where add_module replaces the entry of an existing name in place and    *)
(* appends otherwise.  Tensors are abstracted: a pixel is one of four      *)
(* representative values (below 0, 0, 1, above 1); a probe's loss field    *)
(* is the number of the forward pass that last wrote it (0: never).        *)
(***************************************************************************)
EXTENDS Integers, Sequences, FiniteSets, TLC

VARIABLES
    cnn,              \* the hierarchy: sequence of layer kinds
    content_arg,      \* content_layers argument: {} for None, {S} for the list S
    style_arg,        \* style_layers argument, likewise
    content_layers,   \* resolved content layer names
    style_layers,     \* resolved style layer names
    model,            \* the nn.Sequential being built / returned
    content_losses,   \* recorded Content Probes (probe ids, in order)
    style_losses,     \* recorded Style Probes (probe ids, in order)
    i,                \* the convolution counter, reused by the trim loop
    idx,              \* position of the walk in cnn (1-based, next layer)
    name,             \* derived name of the layer just added
    loss,             \* loss[p]: forward pass that last wrote probe p's loss
    fwd,              \* number of forward passes run so far
    pc,               \* control position
    num_steps,        \* iteration budget
    input_img,        \* the synthesized image, mutated in place
    run,              \* run[0], the counter captured by the closure
    evals,            \* number of closure invocations (observer)
    calls             \* closure invocations within the latest optimizer.step

vars == <<cnn, content_arg, style_arg, content_layers, style_layers, model,
          content_losses, style_losses, i, idx, name, loss, fwd, pc,
          num_steps, input_img, run, evals, calls>>

buildVars == <<content_layers, style_layers, model, content_losses,
               style_losses, i, idx, name>>
argVars == <<cnn, content_arg, style_arg, num_steps>>
optVars == <<input_img, run, evals, calls>>

----------------------------------------------------------------------------
(* Bounds *)

MaxLayers == 3         \* hierarchies of any kinds, any layer-name sets
MaxConvLayers == 6     \* hierarchies holding at least MinConvs convolutions
MaxRunLayers == 8      \* prefix length of the VGG stack in a full run
MaxSteps == 2          \* small iteration budgets
MaxClosureCalls == 2   \* closure invocations the optimizer makes per step
NPixels == 1           \* pixels of the image

----------------------------------------------------------------------------
(* Program constants *)

ClampLo == 0
ClampHi == 1
ReportEvery == 50
MinConvs == 5

LayerKinds == {"Conv2d", "ReLU", "MaxPool2d", "BatchNorm2d", "Other"}

content_layers_default == {<<"conv", 4>>}
style_layers_default ==
    {<<"conv", 1>>, <<"conv", 2>>, <<"conv", 3>>, <<"conv", 4>>, <<"conv", 5>>}

\* models.vgg19(...).features, its first twelve layers
VGGStack ==
    <<"Conv2d", "ReLU", "Conv2d", "ReLU", "MaxPool2d",
      "Conv2d", "ReLU", "Conv2d", "ReLU", "MaxPool2d",
      "Conv2d", "ReLU">>

----------------------------------------------------------------------------
(* Inputs *)

Hierarchies(n) == UNION {[1..k -> LayerKinds] : k \in 0..n}

RECURSIVE CountConvs(_, _)
CountConvs(h, k) ==
    IF k = 0 THEN 0
    ELSE CountConvs(h, k - 1) + (IF h[k] = "Conv2d" THEN 1 ELSE 0)

ConvHierarchies ==
    {h \in UNION {[1..k -> LayerKinds] : k \in MinConvs..MaxConvLayers} :
        CountConvs(h, Len(h)) >= MinConvs}

\* Prefixes of the VGG stack, as given or with one layer of unrecognized kind
RunHierarchies ==
    LET Prefix(k) == SubSeq(VGGStack, 1, k)
    IN  {Prefix(k) : k \in 0..MaxRunLayers}
        \cup UNION {{[Prefix(k) EXCEPT ![j] = "Other"] : j \in 1..k} :
                        k \in 1..MaxRunLayers}

NameChoices == {<<"conv", 1>>, <<"relu", 1>>, <<"pool", 0>>}
LayerArgs == {{}} \cup {{s} : s \in SUBSET NameChoices} \* None, or a given list

PixelValues == {ClampLo - 1, ClampLo, ClampHi, ClampHi + 1}
Images == [1..NPixels -> PixelValues]
StepChoices == (0..MaxSteps) \cup {ReportEvery - 1}

----------------------------------------------------------------------------
(* Helpers *)

Normalization ==
    [name |-> <<"0", 0>>, type |-> "Normalization", src |-> 0, id |-> 0]

IsProbe(e) == e.type \in {"ContentLoss", "StyleLoss"}

Recognized(kind) == kind \in {"Conv2d", "ReLU", "MaxPool2d", "BatchNorm2d"}

\* the isinstance chain: the counter after the layer, and the derived name
NextCounterEveryLayer(kind, c) == c + 1
NextCounter(kind, c) == IF kind = "Conv2d" THEN c + 1 ELSE c

KindTag(kind) ==
    CASE kind = "Conv2d" -> "conv"
      [] kind = "ReLU" -> "relu"
      [] kind = "MaxPool2d" -> "pool"
      [] kind = "BatchNorm2d" -> "bn"

DerivedName(kind, c) == <<KindTag(kind), NextCounter(kind, c)>>

\* nn.Module.add_module on a Sequential: _modules[name] = module; an
\* existing key keeps its position and gets the new module
add_module(m, entry) ==
    IF \E k \in 1..Len(m) : m[k].name = entry.name
    THEN LET k == CHOOSE k \in 1..Len(m) : m[k].name = entry.name
         IN  [m EXCEPT ![k] = entry]
    ELSE Append(m, entry)

\* model(x): every probe in the pipeline writes its loss field
Forward(m, l, stamp) ==
    [p \in DOMAIN l |->
        IF \E k \in 1..Len(m) : IsProbe(m[k]) /\ m[k].id = p
        THEN stamp ELSE l[p]]

\* the trim loop: for i in range(len(model) - 1, -1, -1): if probe: break
\* (0-based index left in i: the last probe, or 0 when there is none)
TrimIndexNoTrim(m) == Len(m) - 1
TrimIndexKeepAll(m) ==
    IF \E k \in 1..Len(m) : IsProbe(m[k])
    THEN (CHOOSE k \in 1..Len(m) :
              IsProbe(m[k]) /\ \A j \in (k + 1)..Len(m) : ~IsProbe(m[j])) - 1
    ELSE Len(m) - 1
TrimIndex(m) ==
    IF \E k \in 1..Len(m) : IsProbe(m[k])
    THEN (CHOOSE k \in 1..Len(m) :
              IsProbe(m[k]) /\ \A j \in (k + 1)..Len(m) : ~IsProbe(m[j])) - 1
    ELSE 0

\* model[:(i + 1)]
SliceExclusive(m, j) == SubSeq(m, 1, j)
Slice(m, j) == SubSeq(m, 1, IF j + 1 <= Len(m) THEN j + 1 ELSE Len(m))

ClampUpperOnly(v) == IF v > ClampHi THEN ClampHi ELSE v
Clamp(v) == IF v < ClampLo THEN ClampLo ELSE IF v > ClampHi THEN ClampHi ELSE v

clamp_(img) == [p \in DOMAIN img |-> Clamp(img[p])]

----------------------------------------------------------------------------
(* Initial states *)

InitCommon ==
    /\ content_layers = {}
    /\ style_layers = {}
    /\ model = <<>>
    /\ content_losses = <<>>
    /\ style_losses = <<>>
    /\ i = 0
    /\ idx = 1
    /\ name = <<"", 0>>
    /\ loss = <<>>
    /\ fwd = 0
    /\ pc = "start"
    /\ run = 0
    /\ evals = 0
    /\ calls = 0

\* get_style_model_and_losses called on its own
InitBuild ==
    /\ InitCommon
    /\ \/ /\ cnn \in Hierarchies(MaxLayers)
          /\ content_arg \in LayerArgs
          /\ style_arg \in LayerArgs
       \/ /\ cnn \in ConvHierarchies
          /\ content_arg = {}
          /\ style_arg = {}
    /\ num_steps = 0
    /\ input_img = [p \in 1..NPixels |-> ClampLo]

\* run_style_transfer: the builder is called with the default layer names
InitRun ==
    /\ InitCommon
    /\ cnn \in RunHierarchies
    /\ content_arg = {}
    /\ style_arg = {}
    /\ num_steps \in StepChoices
    /\ input_img \in Images

----------------------------------------------------------------------------
(* get_style_model_and_losses *)

\* defaults, the two lists, nn.Sequential(normalization), i = 0
BuildBegin ==
    /\ pc = "start"
    /\ content_layers' =
           (IF content_arg = {} THEN content_layers_default
            ELSE CHOOSE s \in content_arg : TRUE)
    /\ style_layers' =
           (IF style_arg = {} THEN style_layers_default
            ELSE CHOOSE s \in style_arg : TRUE)
    /\ content_losses' = <<>>
    /\ style_losses' = <<>>
    /\ model' = <<Normalization>>
    /\ i' = 0
    /\ idx' = 1
    /\ pc' = "walk"
    /\ UNCHANGED <<name, loss, fwd>>
    /\ UNCHANGED argVars
    /\ UNCHANGED optVars

\* one layer of the walk: classify, name, add to the pipeline
AddLayer ==
    /\ pc = "walk"
    /\ idx <= Len(cnn)
    /\ Recognized(cnn[idx])
    /\ i' = NextCounter(cnn[idx], i)
    /\ name' = DerivedName(cnn[idx], i)
    /\ model' = add_module(model,
                    [name |-> DerivedName(cnn[idx], i), type |-> cnn[idx],
                     src |-> idx, id |-> 0])
    /\ pc' = "content"
    /\ UNCHANGED <<content_layers, style_layers, content_losses, style_losses,
                   idx, loss, fwd>>
    /\ UNCHANGED argVars
    /\ UNCHANGED optVars

SkipUnrecognized ==
    /\ pc = "walk"
    /\ idx <= Len(cnn)
    /\ ~Recognized(cnn[idx])
    /\ idx' = idx + 1
    /\ UNCHANGED <<content_layers, style_layers, model, content_losses,
                   style_losses, i, name, loss, fwd, pc>>
    /\ UNCHANGED argVars
    /\ UNCHANGED optVars

\* raise RuntimeError('Unrecognized layer: ...')
RaiseUnrecognized ==
    /\ pc = "walk"
    /\ idx <= Len(cnn)
    /\ ~Recognized(cnn[idx])
    /\ pc' = "raised"
    /\ UNCHANGED buildVars
    /\ UNCHANGED <<loss, fwd>>
    /\ UNCHANGED argVars
    /\ UNCHANGED optVars

\* if name in content_layers: target = model(content_img); add; record
ContentProbe ==
    /\ pc = "content"
    /\ IF name \in content_layers
       THEN LET p == Len(loss) + 1
            IN  /\ fwd' = fwd + 1
                /\ loss' = Append(Forward(model, loss, fwd + 1), 0)
                /\ model' = add_module(model,
                                [name |-> <<"content_loss", i>>,
                                 type |-> "ContentLoss", src |-> 0, id |-> p])
                /\ content_losses' = Append(content_losses, p)
       ELSE UNCHANGED <<fwd, loss, model, content_losses>>
    /\ pc' = "style"
    /\ UNCHANGED <<content_layers, style_layers, style_losses, i, idx, name>>
    /\ UNCHANGED argVars
    /\ UNCHANGED optVars

\* if name in style_layers: target_feature = model(style_img); add; record
StyleProbe ==
    /\ pc = "style"
    /\ IF name \in style_layers
       THEN LET p == Len(loss) + 1
            IN  /\ fwd' = fwd + 1
                /\ loss' = Append(Forward(model, loss, fwd + 1), 0)
                /\ model' = add_module(model,
                                [name |-> <<"style_loss", i>>,
                                 type |-> "StyleLoss", src |-> 0, id |-> p])
                /\ style_losses' = Append(style_losses, p)
       ELSE UNCHANGED <<fwd, loss, model, style_losses>>
    /\ idx' = idx + 1
    /\ pc' = "walk"
    /\ UNCHANGED <<content_layers, style_layers, content_losses, i, name>>
    /\ UNCHANGED argVars
    /\ UNCHANGED optVars

\* the trim loop, model = model[:(i + 1)], return
Trim ==
    /\ pc = "walk"
    /\ idx > Len(cnn)
    /\ i' = TrimIndex(model)
    /\ model' = Slice(model, TrimIndex(model))
    /\ pc' = "built"
    /\ UNCHANGED <<content_layers, style_layers, content_losses, style_losses,
                   idx, name, loss, fwd>>
    /\ UNCHANGED argVars
    /\ UNCHANGED optVars

NextBuild ==
    \/ BuildBegin
    \/ AddLayer
    \/ RaiseUnrecognized
    \/ ContentProbe
    \/ StyleProbe
    \/ Trim

SpecBuild == InitBuild /\ [][NextBuild]_vars

----------------------------------------------------------------------------
(* run_style_transfer *)

\* while run[0] <= num_steps
LoopContinuesStrict(r, n) == r < n
LoopContinues(r, n) == r <= n

\* run[0] += 1
CounterStuck(r) == r
CounterAfter(r) == r + 1

\* loss = style_score + content_score is the int 0 when no probe was
\* recorded: loss.backward() raises AttributeError
BackwardFails == style_losses = <<>> /\ content_losses = <<>>

\* the progress report calls .item() on both scores: a score that summed no
\* probe loss is still the int 0 and .item() raises AttributeError
ReportFails == style_losses = <<>> \/ content_losses = <<>>

\* the builder returned; optimizer = get_input_optimizer(input_img); run = [0]
EnterLoop ==
    /\ pc = "built"
    /\ run' = 0
    /\ pc' = "loop"
    /\ UNCHANGED buildVars
    /\ UNCHANGED <<loss, fwd>>
    /\ UNCHANGED argVars
    /\ UNCHANGED <<input_img, evals, calls>>

\* the loop test; a passing test calls optimizer.step(closure)
LoopTest ==
    /\ pc = "loop"
    /\ IF LoopContinues(run, num_steps)
       THEN /\ pc' = "step"
            /\ calls' = 0
       ELSE /\ pc' = "exit"
            /\ UNCHANGED calls
    /\ UNCHANGED buildVars
    /\ UNCHANGED <<loss, fwd>>
    /\ UNCHANGED argVars
    /\ UNCHANGED <<input_img, run, evals>>

\* one invocation of closure() by the optimizer: the first of a step, or a
\* re-evaluation after a parameter update
closure ==
    /\ \/ pc = "step"
       \/ pc = "updated" /\ calls < MaxClosureCalls
    /\ input_img' = clamp_(input_img)
    /\ fwd' = fwd + 1
    /\ loss' = Forward(model, loss, fwd + 1)
    /\ evals' = evals + 1
    /\ calls' = calls + 1
    /\ IF BackwardFails
       THEN /\ run' = run
            /\ pc' = "raised"
       ELSE /\ run' = CounterAfter(run)
            /\ pc' = IF run' % ReportEvery = 0 /\ ReportFails
                     THEN "raised" ELSE "evaluated"
    /\ UNCHANGED buildVars
    /\ UNCHANGED argVars

\* the optimizer writes new pixel values into the image (unconstrained)
OptimizerUpdate ==
    /\ pc = "evaluated"
    /\ input_img' \in Images
    /\ pc' = "updated"
    /\ UNCHANGED buildVars
    /\ UNCHANGED <<loss, fwd>>
    /\ UNCHANGED argVars
    /\ UNCHANGED <<run, evals, calls>>

\* optimizer.step(closure) returns
StepReturn ==
    /\ pc \in {"evaluated", "updated"}
    /\ pc' = "loop"
    /\ UNCHANGED buildVars
    /\ UNCHANGED <<loss, fwd>>
    /\ UNCHANGED argVars
    /\ UNCHANGED optVars

\* input_img.data.clamp_(0, 1); return input_img
FinalClamp ==
    /\ pc = "exit"
    /\ input_img' = clamp_(input_img)
    /\ pc' = "done"
    /\ UNCHANGED buildVars
    /\ UNCHANGED <<loss, fwd>>
    /\ UNCHANGED argVars
    /\ UNCHANGED <<run, evals, calls>>

NextRun ==
    \/ BuildBegin
    \/ AddLayer
    \/ RaiseUnrecognized
    \/ ContentProbe
    \/ StyleProbe
    \/ Trim
    \/ EnterLoop
    \/ LoopTest
    \/ closure
    \/ OptimizerUpdate
    \/ StepReturn
    \/ FinalClamp

SpecRun == InitRun /\ [][NextRun]_vars

\* the program keeps running: a single sequential thread of control
LiveRun == InitRun /\ [][NextRun]_vars /\ WF_vars(NextRun)

----------------------------------------------------------------------------
(* Properties *)

\* derived name of layer k of a hierarchy, from the hierarchy alone
LayerNameAt(h, k) == <<KindTag(h[k]), CountConvs(h, k)>>

\* layer k is of a recognized kind and its derived name is requested
ContentProbed(k) == Recognized(cnn[k]) /\ LayerNameAt(cnn, k) \in content_layers
StyleProbed(k) == Recognized(cnn[k]) /\ LayerNameAt(cnn, k) \in style_layers
Probed(k) == ContentProbed(k) \/ StyleProbed(k)

LastProbed ==
    IF \E k \in 1..Len(cnn) : Probed(k)
    THEN CHOOSE k \in 1..Len(cnn) :
             Probed(k) /\ \A j \in (k + 1)..Len(cnn) : ~Probed(j)
    ELSE 0

HasUnrecognized == \E k \in 1..Len(cnn) : ~Recognized(cnn[k])

InBuilder == pc \in {"start", "walk", "content", "style"}

InRange(img) == \A p \in DOMAIN img : ClampLo <= img[p] /\ img[p] <= ClampHi

Recorded == {content_losses[k] : k \in 1..Len(content_losses)}
                \cup {style_losses[k] : k \in 1..Len(style_losses)}

IsLayer(e) == ~IsProbe(e) /\ e.type # "Normalization"

LayerSources == LET L == SelectSeq(model, IsLayer)
                IN  [k \in 1..Len(L) |-> L[k].src]

\* C1: the returned pipeline of a build in which some layer's derived name is
\* requested ends with a probe (no hierarchy layer follows the last probe),
\* and that probe carries the convolution index of the last requested layer.
C1_EndsAfterLastProbe ==
    (pc = "built" /\ LastProbed > 0) =>
        /\ IsProbe(model[Len(model)])
        /\ model[Len(model)].name[2] = CountConvs(cnn, LastProbed)
        /\ i = Len(model) - 1

C1_Witness ==
    /\ pc = "built"
    /\ LastProbed > 0
    /\ LastProbed < Len(cnn)
    /\ IsProbe(model[Len(model)])

\* C2: the counter i equals the number of convolutions walked (0 before the
\* first layer), one probe is recorded per walked layer whose derived name is
\* in the corresponding set, and with the default sets and at least five
\* convolutions the build returns 1 Content Probe and 5 Style Probes.
C2_CounterAndProbeCounts ==
    /\ pc = "walk" =>
          /\ i = CountConvs(cnn, idx - 1)
          /\ Len(content_losses) =
                 Cardinality({k \in 1..(idx - 1) : ContentProbed(k)})
          /\ Len(style_losses) =
                 Cardinality({k \in 1..(idx - 1) : StyleProbed(k)})
    /\ pc \in {"content", "style"} => i = CountConvs(cnn, idx)
    /\ (pc = "built" /\ content_arg = {} /\ style_arg = {}
          /\ CountConvs(cnn, Len(cnn)) >= MinConvs) =>
          /\ Len(content_losses) = 1
          /\ Len(style_losses) = 5
          /\ Cardinality(Recorded) = 6

C2_Witness ==
    /\ pc = "built"
    /\ content_arg = {}
    /\ style_arg = {}
    /\ CountConvs(cnn, Len(cnn)) >= MinConvs
    /\ cnn[Len(cnn)] # "Conv2d"
    /\ Len(content_losses) = 1
    /\ Len(style_losses) = 5

\* C3: from the creation of the pipeline on (after each layer, each probe and
\* the truncation) its first entry is the Normalization Stage and it holds
\* exactly one Normalization Stage.
C3_OneLeadingNormalization ==
    pc # "start" =>
        /\ Len(model) >= 1
        /\ model[1] = Normalization
        /\ Cardinality({k \in 1..Len(model) : model[k].type = "Normalization"}) = 1

C3_Witness ==
    /\ pc = "built"
    /\ Len(cnn) >= 2
    /\ model = <<Normalization>>

\* C4 as stated: a run that returns made exactly num_steps + 1 closure
\* evaluations.
C4_ExactlyStepsPlusOne == pc = "done" => evals = num_steps + 1

\* C4 amended: a run that returns made at least num_steps + 1 closure
\* evaluations, all counted by run[0]; the last optimizer.step call began
\* with the counter at most num_steps, so the total is at most num_steps plus
\* the evaluations of that last call, and exactly num_steps + 1 when that
\* call evaluated once.
C4_AtLeastStepsPlusOne ==
    pc = "done" =>
        /\ evals >= num_steps + 1
        /\ run = evals
        /\ calls >= 1
        /\ evals - calls <= num_steps
        /\ (calls = 1 => evals = num_steps + 1)

C4_Witness == pc = "done" /\ evals > num_steps + 1 /\ calls > 1

\* C5 as stated: after every optimizer.step call has returned, and after the
\* final return, every pixel lies in [0, 1].
C5_ClampedAfterEveryStep ==
    ((pc = "loop" /\ evals > 0) \/ pc = "done") => InRange(input_img)

\* C5 amended: when an evaluation of the closure has completed (the image it
\* was evaluated on) and after the final return, every pixel lies in [0, 1].
C5_ClampedAtEvaluationAndReturn ==
    pc \in {"evaluated", "done"} => InRange(input_img)

C5_Witness == pc = "evaluated" /\ calls > 1 /\ InRange(input_img)

\* C6: with a layer of unrecognized kind in the hierarchy the run never
\* leaves the builder except by the error, raised at the first such layer with
\* every layer before it added; no pipeline is returned, the closure is never
\* evaluated and the image is never written.
C6_UnrecognizedAborts ==
    /\ [](HasUnrecognized =>
            /\ InBuilder \/ pc = "raised"
            /\ evals = 0
            /\ pc = "raised" =>
                  /\ ~Recognized(cnn[idx])
                  /\ \A k \in 1..(idx - 1) : Recognized(cnn[k])
                  /\ LayerSources = [k \in 1..(idx - 1) |-> k])
    /\ [][HasUnrecognized => input_img' = input_img]_vars
    /\ (HasUnrecognized ~> pc = "raised")

C6_Witness ==
    /\ pc = "raised"
    /\ HasUnrecognized
    /\ Len(style_losses) > 0
    /\ idx > LastProbed + 1

\* C7 as stated: every probe recorded in the returned lists is an entry of
\* the returned pipeline.
C7_RecordedProbesInPipeline ==
    pc = "built" =>
        \A p \in Recorded :
            \E k \in 1..Len(model) : IsProbe(model[k]) /\ model[k].id = p

\* C8 as stated: the layer entries of the returned pipeline are the
\* hierarchy's layers 1 .. last layer that received a probe, once each, in
\* order, each under its derived name.
C8_LayersInOrder ==
    pc = "built" =>
        /\ LayerSources = [k \in 1..LastProbed |-> k]
        /\ \A k \in 1..Len(model) :
               IsLayer(model[k]) =>
                   /\ model[k].type = cnn[model[k].src]
                   /\ model[k].name = LayerNameAt(cnn, model[k].src)

\* C9: every closure evaluation that completes raises the counter by exactly
\* one and nothing else changes it, the loop exits exactly at the first loop
\* test that finds the counter above num_steps, and a run that entered the loop
\* ends: it returns the clamped image unless an evaluation fails.
C9_Terminates ==
    /\ [][/\ (evals' # evals /\ pc' # "raised") => run' = run + 1
          /\ (evals' = evals /\ pc # "built") => run' = run
          /\ pc = "loop" => (pc' = "exit" <=> run > num_steps)]_vars
    /\ [](pc = "done" => run > num_steps /\ InRange(input_img))
    /\ (pc = "loop" ~> (pc = "done" \/ pc = "raised"))
    /\ ((pc = "loop" /\ Len(content_losses) > 0) ~> pc = "done")

C9_Witness == pc = "done" /\ run > num_steps + 1 /\ run > MaxClosureCalls

\* C10: a build that walks the whole hierarchy without any derived name being
\* requested raises no error and returns the Normalization Stage alone with
\* two empty probe lists.
C10_NoProbeBuild ==
    (LastProbed = 0 /\ ~HasUnrecognized) =>
        /\ pc # "raised"
        /\ pc = "built" =>
              /\ model = <<Normalization>>
              /\ content_losses = <<>>
              /\ style_losses = <<>>

C10_Witness ==
    /\ pc = "built"
    /\ LastProbed = 0
    /\ Len(cnn) = MaxLayers
    /\ content_layers # {}
    /\ model = <<Normalization>>

====
